---- MODULE Spec2Model ----
(***************************************************************************)
(* Model of app.py: a Flask application with a lazily created, process-wide *)
(* SQLAlchemy engine (get_engine), the two dissociation routes              *)
(* (dissociate_terms, dissociate_locations), the diagnostic route test_db   *)
(* and the health route.  Python strings are sequences of code points; the *)
(* PostgreSQL store is the three tables of schema ns, held as bags of rows, *)
(* together with the set of statements it rejects.                          *)
(***************************************************************************)
EXTENDS Integers, Sequences, FiniteSets, Bags, TLC

(***************************************************************************)
(* Bounds of the model.                                                     *)
(***************************************************************************)
NumThreads == 2
MaxTermLen == 4
MaxCoordLen == 6
MaxRows == 3
MaxStudy == 2

(***************************************************************************)
(* Python str and int.  A string is the sequence of its code points, so     *)
(* "a_b" is <<97, 95, 98>>.  The tables are those of the Unicode database   *)
(* str.lower(), str.strip() and int() read (Unicode 14.0).                  *)
(***************************************************************************)
Tab == 9

Space == 32

Plus == 43

Minus == 45

Underscore == 95

CapitalSigma == 931

FinalSmallSigma == 962

\* the characters str.strip() drops
Whitespace ==
    {9, 10, 11, 12, 13, 28, 29, 30, 31, 32, 133, 160, 5760} \cup (8192..8202)
    \cup {8232, 8233, 8239, 8287, 12288}

\* the characters str.lower() changes into one other character, in runs
\* <<first, last, step, delta>>: first, first + step, ..., last each become
\* the character delta further on
LowerTable ==
    {<<65, 90, 1, 32>>, <<192, 214, 1, 32>>, <<216, 222, 1, 32>>,
     <<256, 302, 2, 1>>, <<306, 310, 2, 1>>, <<313, 327, 2, 1>>,
     <<330, 374, 2, 1>>, <<376, 376, 1, -121>>, <<377, 381, 2, 1>>,
     <<385, 385, 1, 210>>, <<386, 388, 2, 1>>, <<390, 390, 1, 206>>,
     <<391, 391, 1, 1>>, <<393, 394, 1, 205>>, <<395, 395, 1, 1>>,
     <<398, 398, 1, 79>>, <<399, 399, 1, 202>>, <<400, 400, 1, 203>>,
     <<401, 401, 1, 1>>, <<403, 403, 1, 205>>, <<404, 404, 1, 207>>,
     <<406, 406, 1, 211>>, <<407, 407, 1, 209>>, <<408, 408, 1, 1>>,
     <<412, 412, 1, 211>>, <<413, 413, 1, 213>>, <<415, 415, 1, 214>>,
     <<416, 420, 2, 1>>, <<422, 422, 1, 218>>, <<423, 423, 1, 1>>,
     <<425, 425, 1, 218>>, <<428, 428, 1, 1>>, <<430, 430, 1, 218>>,
     <<431, 431, 1, 1>>, <<433, 434, 1, 217>>, <<435, 437, 2, 1>>,
     <<439, 439, 1, 219>>, <<440, 440, 1, 1>>, <<444, 444, 1, 1>>,
     <<452, 452, 1, 2>>, <<453, 453, 1, 1>>, <<455, 455, 1, 2>>,
     <<456, 456, 1, 1>>, <<458, 458, 1, 2>>, <<459, 475, 2, 1>>,
     <<478, 494, 2, 1>>, <<497, 497, 1, 2>>, <<498, 500, 2, 1>>,
     <<502, 502, 1, -97>>, <<503, 503, 1, -56>>, <<504, 542, 2, 1>>,
     <<544, 544, 1, -130>>, <<546, 562, 2, 1>>, <<570, 570, 1, 10795>>,
     <<571, 571, 1, 1>>, <<573, 573, 1, -163>>, <<574, 574, 1, 10792>>,
     <<577, 577, 1, 1>>, <<579, 579, 1, -195>>, <<580, 580, 1, 69>>,
     <<581, 581, 1, 71>>, <<582, 590, 2, 1>>, <<880, 882, 2, 1>>,
     <<886, 886, 1, 1>>, <<895, 895, 1, 116>>, <<902, 902, 1, 38>>,
     <<904, 906, 1, 37>>, <<908, 908, 1, 64>>, <<910, 911, 1, 63>>,
     <<913, 929, 1, 32>>, <<931, 939, 1, 32>>, <<975, 975, 1, 8>>,
     <<984, 1006, 2, 1>>, <<1012, 1012, 1, -60>>, <<1015, 1015, 1, 1>>,
     <<1017, 1017, 1, -7>>, <<1018, 1018, 1, 1>>, <<1021, 1023, 1, -130>>,
     <<1024, 1039, 1, 80>>, <<1040, 1071, 1, 32>>, <<1120, 1152, 2, 1>>,
     <<1162, 1214, 2, 1>>, <<1216, 1216, 1, 15>>, <<1217, 1229, 2, 1>>,
     <<1232, 1326, 2, 1>>, <<1329, 1366, 1, 48>>, <<4256, 4293, 1, 7264>>,
     <<4295, 4295, 1, 7264>>, <<4301, 4301, 1, 7264>>,
     <<5024, 5103, 1, 38864>>, <<5104, 5109, 1, 8>>, <<7312, 7354, 1, -3008>>,
     <<7357, 7359, 1, -3008>>, <<7680, 7828, 2, 1>>, <<7838, 7838, 1, -7615>>,
     <<7840, 7934, 2, 1>>, <<7944, 7951, 1, -8>>, <<7960, 7965, 1, -8>>,
     <<7976, 7983, 1, -8>>, <<7992, 7999, 1, -8>>, <<8008, 8013, 1, -8>>,
     <<8025, 8031, 2, -8>>, <<8040, 8047, 1, -8>>, <<8072, 8079, 1, -8>>,
     <<8088, 8095, 1, -8>>, <<8104, 8111, 1, -8>>, <<8120, 8121, 1, -8>>,
     <<8122, 8123, 1, -74>>, <<8124, 8124, 1, -9>>, <<8136, 8139, 1, -86>>,
     <<8140, 8140, 1, -9>>, <<8152, 8153, 1, -8>>, <<8154, 8155, 1, -100>>,
     <<8168, 8169, 1, -8>>, <<8170, 8171, 1, -112>>, <<8172, 8172, 1, -7>>,
     <<8184, 8185, 1, -128>>, <<8186, 8187, 1, -126>>, <<8188, 8188, 1, -9>>,
     <<8486, 8486, 1, -7517>>, <<8490, 8490, 1, -8383>>,
     <<8491, 8491, 1, -8262>>, <<8498, 8498, 1, 28>>, <<8544, 8559, 1, 16>>,
     <<8579, 8579, 1, 1>>, <<9398, 9423, 1, 26>>, <<11264, 11311, 1, 48>>,
     <<11360, 11360, 1, 1>>, <<11362, 11362, 1, -10743>>,
     <<11363, 11363, 1, -3814>>, <<11364, 11364, 1, -10727>>,
     <<11367, 11371, 2, 1>>, <<11373, 11373, 1, -10780>>,
     <<11374, 11374, 1, -10749>>, <<11375, 11375, 1, -10783>>,
     <<11376, 11376, 1, -10782>>, <<11378, 11378, 1, 1>>,
     <<11381, 11381, 1, 1>>, <<11390, 11391, 1, -10815>>,
     <<11392, 11490, 2, 1>>, <<11499, 11501, 2, 1>>, <<11506, 11506, 1, 1>>,
     <<42560, 42604, 2, 1>>, <<42624, 42650, 2, 1>>, <<42786, 42798, 2, 1>>,
     <<42802, 42862, 2, 1>>, <<42873, 42875, 2, 1>>,
     <<42877, 42877, 1, -35332>>, <<42878, 42886, 2, 1>>,
     <<42891, 42891, 1, 1>>, <<42893, 42893, 1, -42280>>,
     <<42896, 42898, 2, 1>>, <<42902, 42920, 2, 1>>,
     <<42922, 42922, 1, -42308>>, <<42923, 42923, 1, -42319>>,
     <<42924, 42924, 1, -42315>>, <<42925, 42925, 1, -42305>>,
     <<42926, 42926, 1, -42308>>, <<42928, 42928, 1, -42258>>,
     <<42929, 42929, 1, -42282>>, <<42930, 42930, 1, -42261>>,
     <<42931, 42931, 1, 928>>, <<42932, 42946, 2, 1>>,
     <<42948, 42948, 1, -48>>, <<42949, 42949, 1, -42307>>,
     <<42950, 42950, 1, -35384>>, <<42951, 42953, 2, 1>>,
     <<42960, 42960, 1, 1>>, <<42966, 42968, 2, 1>>, <<42997, 42997, 1, 1>>,
     <<65313, 65338, 1, 32>>, <<66560, 66599, 1, 40>>, <<66736, 66771, 1, 40>>,
     <<66928, 66938, 1, 39>>, <<66940, 66954, 1, 39>>, <<66956, 66962, 1, 39>>,
     <<66964, 66965, 1, 39>>, <<68736, 68786, 1, 64>>, <<71840, 71871, 1, 32>>,
     <<93760, 93791, 1, 32>>, <<125184, 125217, 1, 34>>}

\* the letters, cased for str.lower(), in runs <<first, last>>
CasedTable ==
    {<<65, 90>>, <<97, 122>>, <<170, 170>>, <<181, 181>>, <<186, 186>>,
     <<192, 214>>, <<216, 246>>, <<248, 442>>, <<444, 447>>, <<452, 659>>,
     <<661, 696>>, <<704, 705>>, <<736, 740>>, <<837, 837>>, <<880, 883>>,
     <<886, 887>>, <<890, 893>>, <<895, 895>>, <<902, 902>>, <<904, 906>>,
     <<908, 908>>, <<910, 929>>, <<931, 1013>>, <<1015, 1153>>, <<1162, 1327>>,
     <<1329, 1366>>, <<1376, 1416>>, <<4256, 4293>>, <<4295, 4295>>,
     <<4301, 4301>>, <<4304, 4346>>, <<4349, 4351>>, <<5024, 5109>>,
     <<5112, 5117>>, <<7296, 7304>>, <<7312, 7354>>, <<7357, 7359>>,
     <<7424, 7615>>, <<7680, 7957>>, <<7960, 7965>>, <<7968, 8005>>,
     <<8008, 8013>>, <<8016, 8023>>, <<8025, 8025>>, <<8027, 8027>>,
     <<8029, 8029>>, <<8031, 8061>>, <<8064, 8116>>, <<8118, 8124>>,
     <<8126, 8126>>, <<8130, 8132>>, <<8134, 8140>>, <<8144, 8147>>,
     <<8150, 8155>>, <<8160, 8172>>, <<8178, 8180>>, <<8182, 8188>>,
     <<8305, 8305>>, <<8319, 8319>>, <<8336, 8348>>, <<8450, 8450>>,
     <<8455, 8455>>, <<8458, 8467>>, <<8469, 8469>>, <<8473, 8477>>,
     <<8484, 8484>>, <<8486, 8486>>, <<8488, 8488>>, <<8490, 8493>>,
     <<8495, 8500>>, <<8505, 8505>>, <<8508, 8511>>, <<8517, 8521>>,
     <<8526, 8526>>, <<8544, 8575>>, <<8579, 8580>>, <<9398, 9449>>,
     <<11264, 11492>>, <<11499, 11502>>, <<11506, 11507>>, <<11520, 11557>>,
     <<11559, 11559>>, <<11565, 11565>>, <<42560, 42605>>, <<42624, 42653>>,
     <<42786, 42887>>, <<42891, 42894>>, <<42896, 42954>>, <<42960, 42961>>,
     <<42963, 42963>>, <<42965, 42969>>, <<42997, 42998>>, <<43000, 43002>>,
     <<43824, 43866>>, <<43868, 43880>>, <<43888, 43967>>, <<64256, 64262>>,
     <<64275, 64279>>, <<65313, 65338>>, <<65345, 65370>>, <<66560, 66639>>,
     <<66736, 66771>>, <<66776, 66811>>, <<66928, 66938>>, <<66940, 66954>>,
     <<66956, 66962>>, <<66964, 66965>>, <<66967, 66977>>, <<66979, 66993>>,
     <<66995, 67001>>, <<67003, 67004>>, <<67456, 67456>>, <<67459, 67461>>,
     <<67463, 67504>>, <<67506, 67514>>, <<68736, 68786>>, <<68800, 68850>>,
     <<71840, 71903>>, <<93760, 93823>>, <<119808, 119892>>,
     <<119894, 119964>>, <<119966, 119967>>, <<119970, 119970>>,
     <<119973, 119974>>, <<119977, 119980>>, <<119982, 119993>>,
     <<119995, 119995>>, <<119997, 120003>>, <<120005, 120069>>,
     <<120071, 120074>>, <<120077, 120084>>, <<120086, 120092>>,
     <<120094, 120121>>, <<120123, 120126>>, <<120128, 120132>>,
     <<120134, 120134>>, <<120138, 120144>>, <<120146, 120485>>,
     <<120488, 120512>>, <<120514, 120538>>, <<120540, 120570>>,
     <<120572, 120596>>, <<120598, 120628>>, <<120630, 120654>>,
     <<120656, 120686>>, <<120688, 120712>>, <<120714, 120744>>,
     <<120746, 120770>>, <<120772, 120779>>, <<122624, 122633>>,
     <<122635, 122654>>, <<125184, 125251>>, <<127280, 127305>>,
     <<127312, 127337>>, <<127344, 127369>>}

\* the characters str.lower() skips when it looks for the letters around a
\* capital sigma, in runs <<first, last>>
CaseIgnorableTable ==
    {<<39, 39>>, <<46, 46>>, <<58, 58>>, <<94, 94>>, <<96, 96>>, <<168, 168>>,
     <<173, 173>>, <<175, 175>>, <<180, 180>>, <<183, 184>>, <<688, 879>>,
     <<884, 885>>, <<890, 890>>, <<900, 901>>, <<903, 903>>, <<1155, 1161>>,
     <<1369, 1369>>, <<1375, 1375>>, <<1425, 1469>>, <<1471, 1471>>,
     <<1473, 1474>>, <<1476, 1477>>, <<1479, 1479>>, <<1524, 1524>>,
     <<1536, 1541>>, <<1552, 1562>>, <<1564, 1564>>, <<1600, 1600>>,
     <<1611, 1631>>, <<1648, 1648>>, <<1750, 1757>>, <<1759, 1768>>,
     <<1770, 1773>>, <<1807, 1807>>, <<1809, 1809>>, <<1840, 1866>>,
     <<1958, 1968>>, <<2027, 2037>>, <<2042, 2042>>, <<2045, 2045>>,
     <<2070, 2093>>, <<2137, 2139>>, <<2184, 2184>>, <<2192, 2193>>,
     <<2200, 2207>>, <<2249, 2306>>, <<2362, 2362>>, <<2364, 2364>>,
     <<2369, 2376>>, <<2381, 2381>>, <<2385, 2391>>, <<2402, 2403>>,
     <<2417, 2417>>, <<2433, 2433>>, <<2492, 2492>>, <<2497, 2500>>,
     <<2509, 2509>>, <<2530, 2531>>, <<2558, 2558>>, <<2561, 2562>>,
     <<2620, 2620>>, <<2625, 2626>>, <<2631, 2632>>, <<2635, 2637>>,
     <<2641, 2641>>, <<2672, 2673>>, <<2677, 2677>>, <<2689, 2690>>,
     <<2748, 2748>>, <<2753, 2757>>, <<2759, 2760>>, <<2765, 2765>>,
     <<2786, 2787>>, <<2810, 2815>>, <<2817, 2817>>, <<2876, 2876>>,
     <<2879, 2879>>, <<2881, 2884>>, <<2893, 2893>>, <<2901, 2902>>,
     <<2914, 2915>>, <<2946, 2946>>, <<3008, 3008>>, <<3021, 3021>>,
     <<3072, 3072>>, <<3076, 3076>>, <<3132, 3132>>, <<3134, 3136>>,
     <<3142, 3144>>, <<3146, 3149>>, <<3157, 3158>>, <<3170, 3171>>,
     <<3201, 3201>>, <<3260, 3260>>, <<3263, 3263>>, <<3270, 3270>>,
     <<3276, 3277>>, <<3298, 3299>>, <<3328, 3329>>, <<3387, 3388>>,
     <<3393, 3396>>, <<3405, 3405>>, <<3426, 3427>>, <<3457, 3457>>,
     <<3530, 3530>>, <<3538, 3540>>, <<3542, 3542>>, <<3633, 3633>>,
     <<3636, 3642>>, <<3654, 3662>>, <<3761, 3761>>, <<3764, 3772>>,
     <<3782, 3782>>, <<3784, 3789>>, <<3864, 3865>>, <<3893, 3893>>,
     <<3895, 3895>>, <<3897, 3897>>, <<3953, 3966>>, <<3968, 3972>>,
     <<3974, 3975>>, <<3981, 3991>>, <<3993, 4028>>, <<4038, 4038>>,
     <<4141, 4144>>, <<4146, 4151>>, <<4153, 4154>>, <<4157, 4158>>,
     <<4184, 4185>>, <<4190, 4192>>, <<4209, 4212>>, <<4226, 4226>>,
     <<4229, 4230>>, <<4237, 4237>>, <<4253, 4253>>, <<4348, 4348>>,
     <<4957, 4959>>, <<5906, 5908>>, <<5938, 5939>>, <<5970, 5971>>,
     <<6002, 6003>>, <<6068, 6069>>, <<6071, 6077>>, <<6086, 6086>>,
     <<6089, 6099>>, <<6103, 6103>>, <<6109, 6109>>, <<6155, 6159>>,
     <<6211, 6211>>, <<6277, 6278>>, <<6313, 6313>>, <<6432, 6434>>,
     <<6439, 6440>>, <<6450, 6450>>, <<6457, 6459>>, <<6679, 6680>>,
     <<6683, 6683>>, <<6742, 6742>>, <<6744, 6750>>, <<6752, 6752>>,
     <<6754, 6754>>, <<6757, 6764>>, <<6771, 6780>>, <<6783, 6783>>,
     <<6823, 6823>>, <<6832, 6862>>, <<6912, 6915>>, <<6964, 6964>>,
     <<6966, 6970>>, <<6972, 6972>>, <<6978, 6978>>, <<7019, 7027>>,
     <<7040, 7041>>, <<7074, 7077>>, <<7080, 7081>>, <<7083, 7085>>,
     <<7142, 7142>>, <<7144, 7145>>, <<7149, 7149>>, <<7151, 7153>>,
     <<7212, 7219>>, <<7222, 7223>>, <<7288, 7293>>, <<7376, 7378>>,
     <<7380, 7392>>, <<7394, 7400>>, <<7405, 7405>>, <<7412, 7412>>,
     <<7416, 7417>>, <<7468, 7530>>, <<7544, 7544>>, <<7579, 7679>>,
     <<8125, 8125>>, <<8127, 8129>>, <<8141, 8143>>, <<8157, 8159>>,
     <<8173, 8175>>, <<8189, 8190>>, <<8203, 8207>>, <<8216, 8217>>,
     <<8228, 8228>>, <<8231, 8231>>, <<8234, 8238>>, <<8288, 8292>>,
     <<8294, 8303>>, <<8305, 8305>>, <<8319, 8319>>, <<8336, 8348>>,
     <<8400, 8432>>, <<11388, 11389>>, <<11503, 11505>>, <<11631, 11631>>,
     <<11647, 11647>>, <<11744, 11775>>, <<11823, 11823>>, <<12293, 12293>>,
     <<12330, 12333>>, <<12337, 12341>>, <<12347, 12347>>, <<12441, 12446>>,
     <<12540, 12542>>, <<40981, 40981>>, <<42232, 42237>>, <<42508, 42508>>,
     <<42607, 42610>>, <<42612, 42621>>, <<42623, 42623>>, <<42652, 42655>>,
     <<42736, 42737>>, <<42752, 42785>>, <<42864, 42864>>, <<42888, 42890>>,
     <<42994, 42996>>, <<43000, 43001>>, <<43010, 43010>>, <<43014, 43014>>,
     <<43019, 43019>>, <<43045, 43046>>, <<43052, 43052>>, <<43204, 43205>>,
     <<43232, 43249>>, <<43263, 43263>>, <<43302, 43309>>, <<43335, 43345>>,
     <<43392, 43394>>, <<43443, 43443>>, <<43446, 43449>>, <<43452, 43453>>,
     <<43471, 43471>>, <<43493, 43494>>, <<43561, 43566>>, <<43569, 43570>>,
     <<43573, 43574>>, <<43587, 43587>>, <<43596, 43596>>, <<43632, 43632>>,
     <<43644, 43644>>, <<43696, 43696>>, <<43698, 43700>>, <<43703, 43704>>,
     <<43710, 43711>>, <<43713, 43713>>, <<43741, 43741>>, <<43756, 43757>>,
     <<43763, 43764>>, <<43766, 43766>>, <<43867, 43871>>, <<43881, 43883>>,
     <<44005, 44005>>, <<44008, 44008>>, <<44013, 44013>>, <<64286, 64286>>,
     <<64434, 64450>>, <<65024, 65039>>, <<65043, 65043>>, <<65056, 65071>>,
     <<65106, 65106>>, <<65109, 65109>>, <<65279, 65279>>, <<65287, 65287>>,
     <<65294, 65294>>, <<65306, 65306>>, <<65342, 65342>>, <<65344, 65344>>,
     <<65392, 65392>>, <<65438, 65439>>, <<65507, 65507>>, <<65529, 65531>>,
     <<66045, 66045>>, <<66272, 66272>>, <<66422, 66426>>, <<67456, 67461>>,
     <<67463, 67504>>, <<67506, 67514>>, <<68097, 68099>>, <<68101, 68102>>,
     <<68108, 68111>>, <<68152, 68154>>, <<68159, 68159>>, <<68325, 68326>>,
     <<68900, 68903>>, <<69291, 69292>>, <<69446, 69456>>, <<69506, 69509>>,
     <<69633, 69633>>, <<69688, 69702>>, <<69744, 69744>>, <<69747, 69748>>,
     <<69759, 69761>>, <<69811, 69814>>, <<69817, 69818>>, <<69821, 69821>>,
     <<69826, 69826>>, <<69837, 69837>>, <<69888, 69890>>, <<69927, 69931>>,
     <<69933, 69940>>, <<70003, 70003>>, <<70016, 70017>>, <<70070, 70078>>,
     <<70089, 70092>>, <<70095, 70095>>, <<70191, 70193>>, <<70196, 70196>>,
     <<70198, 70199>>, <<70206, 70206>>, <<70367, 70367>>, <<70371, 70378>>,
     <<70400, 70401>>, <<70459, 70460>>, <<70464, 70464>>, <<70502, 70508>>,
     <<70512, 70516>>, <<70712, 70719>>, <<70722, 70724>>, <<70726, 70726>>,
     <<70750, 70750>>, <<70835, 70840>>, <<70842, 70842>>, <<70847, 70848>>,
     <<70850, 70851>>, <<71090, 71093>>, <<71100, 71101>>, <<71103, 71104>>,
     <<71132, 71133>>, <<71219, 71226>>, <<71229, 71229>>, <<71231, 71232>>,
     <<71339, 71339>>, <<71341, 71341>>, <<71344, 71349>>, <<71351, 71351>>,
     <<71453, 71455>>, <<71458, 71461>>, <<71463, 71467>>, <<71727, 71735>>,
     <<71737, 71738>>, <<71995, 71996>>, <<71998, 71998>>, <<72003, 72003>>,
     <<72148, 72151>>, <<72154, 72155>>, <<72160, 72160>>, <<72193, 72202>>,
     <<72243, 72248>>, <<72251, 72254>>, <<72263, 72263>>, <<72273, 72278>>,
     <<72281, 72283>>, <<72330, 72342>>, <<72344, 72345>>, <<72752, 72758>>,
     <<72760, 72765>>, <<72767, 72767>>, <<72850, 72871>>, <<72874, 72880>>,
     <<72882, 72883>>, <<72885, 72886>>, <<73009, 73014>>, <<73018, 73018>>,
     <<73020, 73021>>, <<73023, 73029>>, <<73031, 73031>>, <<73104, 73105>>,
     <<73109, 73109>>, <<73111, 73111>>, <<73459, 73460>>, <<78896, 78904>>,
     <<92912, 92916>>, <<92976, 92982>>, <<92992, 92995>>, <<94031, 94031>>,
     <<94095, 94111>>, <<94176, 94177>>, <<94179, 94180>>, <<110576, 110579>>,
     <<110581, 110587>>, <<110589, 110590>>, <<113821, 113822>>,
     <<113824, 113827>>, <<118528, 118573>>, <<118576, 118598>>,
     <<119143, 119145>>, <<119155, 119170>>, <<119173, 119179>>,
     <<119210, 119213>>, <<119362, 119364>>, <<121344, 121398>>,
     <<121403, 121452>>, <<121461, 121461>>, <<121476, 121476>>,
     <<121499, 121503>>, <<121505, 121519>>, <<122880, 122886>>,
     <<122888, 122904>>, <<122907, 122913>>, <<122915, 122916>>,
     <<122918, 122922>>, <<123184, 123197>>, <<123566, 123566>>,
     <<123628, 123631>>, <<125136, 125142>>, <<125252, 125259>>,
     <<127995, 127999>>, <<917505, 917505>>, <<917536, 917631>>,
     <<917760, 917999>>}

\* the digit zero of every script: int() reads the ten characters from each
\* of them on as the decimal digits 0 to 9
DecimalZeros ==
    {48, 1632, 1776, 1984, 2406, 2534, 2662, 2790, 2918, 3046, 3174, 3302,
     3430, 3558, 3664, 3792, 3872, 4160, 4240, 6112, 6160, 6470, 6608, 6784,
     6800, 6992, 7088, 7232, 7248, 42528, 43216, 43264, 43472, 43504, 43600,
     44016, 65296, 66720, 68912, 69734, 69872, 69942, 70096, 70384, 70736,
     70864, 71248, 71360, 71472, 71904, 72016, 72784, 73040, 73120, 92768,
     92864, 93008, 120782, 120792, 120802, 120812, 120822, 123200, 123632,
     125264, 130032}

Range(f) == {f[i] : i \in DOMAIN f}

InRun(c, r) == r[1] <= c /\ c <= r[2] /\ (c - r[1]) % r[3] = 0

\* the table of str.lower() as a function of the character
LowerOf ==
    [c \in UNION {{r[1] + r[3] * k : k \in 0..((r[2] - r[1]) \div r[3])} :
                  r \in LowerTable} |->
        c + (CHOOSE r \in LowerTable : InRun(c, r))[4]]

Cased == UNION {r[1]..r[2] : r \in CasedTable}

CaseIgnorable == UNION {r[1]..r[2] : r \in CaseIgnorableTable}

Digits == UNION {z..(z + 9) : z \in DecimalZeros}

\* c.lower() for one character: a string, of two characters for U+0130
LowerChar(c) ==
    IF c = 304 THEN <<105, 775>>
    ELSE IF c \in DOMAIN LowerOf THEN <<LowerOf[c]>>
    ELSE <<c>>

\* whether the capital sigma at position i of s ends a word: the nearest
\* character before it that is not case-ignorable is a letter, and the
\* nearest one after it, if any, is not
FinalSigma(s, i) ==
    LET before == {j \in 1..(i - 1) : s[j] \notin CaseIgnorable}
        after == {j \in (i + 1)..Len(s) : s[j] \notin CaseIgnorable}
    IN  /\ before # {}
        /\ s[CHOOSE j \in before : \A k \in before : k <= j] \in Cased
        /\ \/ after = {}
           \/ s[CHOOSE j \in after : \A k \in after : j <= k] \notin Cased

\* str.lower()
Lower(s) ==
    LET RECURSIVE from(_)
        from(i) ==
            IF i > Len(s) THEN <<>>
            ELSE (IF s[i] = CapitalSigma /\ FinalSigma(s, i)
                  THEN <<FinalSmallSigma>>
                  ELSE LowerChar(s[i])) \o from(i + 1)
    IN  from(1)

\* str.strip(): drops leading and trailing whitespace
RECURSIVE LStrip(_)
LStrip(s) ==
    IF s # <<>> /\ Head(s) \in Whitespace THEN LStrip(Tail(s)) ELSE s

RECURSIVE RStrip(_)
RStrip(s) ==
    IF s # <<>> /\ s[Len(s)] \in Whitespace
    THEN RStrip(SubSeq(s, 1, Len(s) - 1))
    ELSE s

Strip(s) == RStrip(LStrip(s))

\* str.replace(old, new) for one-character old and new
Replace(s, old, new) == [i \in DOMAIN s |-> IF s[i] = old THEN new ELSE s[i]]

\* str.split(sep) for a one-character sep: the fields between the
\* separators, empty fields included
RECURSIVE Split(_, _)
Split(s, sep) ==
    IF \A i \in DOMAIN s : s[i] # sep
    THEN <<s>>
    ELSE LET k == CHOOSE i \in DOMAIN s :
                      s[i] = sep /\ \A j \in 1..(i - 1) : s[j] # sep
         IN  <<SubSeq(s, 1, k - 1)>> \o Split(SubSeq(s, k + 1, Len(s)), sep)

DigitValue(c) == c - (CHOOSE z \in DecimalZeros : z <= c /\ c <= z + 9)

RECURSIVE DigitsValue(_)
DigitsValue(ds) ==
    IF ds = <<>> THEN 0
    ELSE 10 * DigitsValue(SubSeq(ds, 1, Len(ds) - 1)) + DigitValue(ds[Len(ds)])

\* the whitespace int() drops around a number: that of str.strip() but for
\* the separators U+001C to U+001F
IntWhitespace == Whitespace \ (28..31)

IntStrip(tok) ==
    LET keep == {i \in DOMAIN tok : tok[i] \notin IntWhitespace}
    IN  IF keep = {} THEN <<>>
        ELSE SubSeq(tok, CHOOSE i \in keep : \A k \in keep : i <= k,
                         CHOOSE j \in keep : \A k \in keep : k <= j)

\* what is left of a token after int() has stripped whitespace and one sign
IntBody(tok) ==
    LET s == IntStrip(tok)
    IN  IF s # <<>> /\ Head(s) \in {Plus, Minus} THEN Tail(s) ELSE s

\* sys.int_max_str_digits: the most digits int() converts
MaxStrDigits == 4300

\* int(tok) succeeds: what is left is decimal digits, with single
\* underscores allowed between two digits, and no more than MaxStrDigits
\* digits
IsInt(tok) ==
    LET body == IntBody(tok)
    IN  /\ body # <<>>
        /\ Cardinality({i \in DOMAIN body : body[i] # Underscore})
              <= MaxStrDigits
        /\ \A i \in DOMAIN body :
              \/ body[i] \in Digits
              \/ /\ body[i] = Underscore
                 /\ 1 < i /\ i < Len(body)
                 /\ body[i - 1] \in Digits
                 /\ body[i + 1] \in Digits

\* int(tok)
PyInt(tok) ==
    LET s == IntStrip(tok)
        digits == SelectSeq(IntBody(tok), LAMBDA c : c # Underscore)
    IN  IF Head(s) = Minus THEN 0 - DigitsValue(digits)
        ELSE DigitsValue(digits)

(***************************************************************************)
(* dissociate_terms: the canonical key of a term (lines 55-56).             *)
(***************************************************************************)
\* "terms_abstract_tfidf__"
Prefix == <<116, 101, 114, 109, 115, 95, 97, 98, 115, 116, 114, 97, 99, 116,
            95, 116, 102, 105, 100, 102, 95, 95>>

\* Norm without .lower()
NormKeepsCase(term) == Replace(Strip(term), Space, Underscore)

\* term.strip().lower().replace(' ', '_')
Norm(term) == Replace(Lower(Strip(term)), Space, Underscore)

\* f"terms_abstract_tfidf__{...}"
Key(term) == Prefix \o Norm(term)

(***************************************************************************)
(* dissociate_locations: parse_coords (lines 106-111).  The result is the   *)
(* triple of integers, or Abort400 when the unpacking or an int() raised.   *)
(***************************************************************************)
Abort400 == <<"abort", 400>>

\* parse_coords unpacking the first three tokens and ignoring the rest
parse_coords_first_three(s) ==
    LET toks == Split(s, Underscore)
    IN  IF Len(toks) >= 3 /\ \A i \in 1..3 : IsInt(toks[i])
        THEN <<PyInt(toks[1]), PyInt(toks[2]), PyInt(toks[3])>>
        ELSE Abort400

parse_coords(s) ==
    LET toks == Split(s, Underscore)
    IN  IF Len(toks) = 3 /\ \A i \in 1..3 : IsInt(toks[i])
        THEN <<PyInt(toks[1]), PyInt(toks[2]), PyInt(toks[3])>>
        ELSE Abort400

(***************************************************************************)
(* The set-difference query.  A relation is a bag: a function from its      *)
(* distinct rows to their positive number of copies.                        *)
(***************************************************************************)
\* SQL's NULL in the column study_id; the study ids proper are positive
Null == 0

\* SELECT study_id FROM tbl WHERE ..., duplicates kept; hit is the set of
\* the distinct rows of tbl that satisfy the condition
SelectStudy(tbl, hit) ==
    LET ids == {r.study_id : r \in hit}
        RECURSIVE Sum(_)
        Sum(S) == IF S = {} THEN 0
                  ELSE LET r == CHOOSE r \in S : TRUE
                       IN  CopiesIn(r, tbl) + Sum(S \ {r})
    IN  [s \in ids |-> Sum({r \in hit : r.study_id = s})]

\* the base selection without DISTINCT
DistinctKeepsCopies(rel) == rel

\* SELECT DISTINCT (the NULLs count as one value)
Distinct(rel) == [s \in DOMAIN rel |-> 1]

\* the condition with weight >= 0
TermCondNonNegative(key, r) == r.term = key /\ r.weight >= 0

\* WHERE term = :key AND weight > 0
TermCond(key, r) == r.term = key /\ r.weight > 0

\* round() of a double precision value held in halves; a tie goes to the
\* even neighbour ("even") or away from zero ("away")
Round(h, mode) ==
    IF h % 2 = 0 THEN h \div 2
    ELSE LET lo == (h - 1) \div 2
             hi == (h + 1) \div 2
         IN  IF mode = "even" THEN (IF lo % 2 = 0 THEN lo ELSE hi)
             ELSE (IF h > 0 THEN hi ELSE lo)

\* WHERE round(ST_X(geom)) = :x AND round(ST_Y(geom)) = :y AND
\*       round(ST_Z(geom)) = :z
CoordCond(p, mode, r) ==
    /\ Round(r.x, mode) = p[1]
    /\ Round(r.y, mode) = p[2]
    /\ Round(r.z, mode) = p[3]

\* r.study_id = l.study_id: true of two equal ids neither of which is NULL
\* (with a NULL on either side the comparison is unknown, and no row passes)
IdEq(s1, s2) == s1 # Null /\ s2 # Null /\ s1 = s2

\* SELECT study_id FROM l WHERE NOT EXISTS (SELECT 1 FROM r WHERE
\* r.study_id = l.study_id); a NULL of l finds no match and is kept
AntiJoin(l, r) ==
    LET keep == {s \in DOMAIN l : ~ \E s2 \in DOMAIN r : IdEq(s2, s)}
    IN  [s \in keep |-> l[s]]

\* SELECT 'kind' AS kind, study_id FROM rel
Tagged(kind, rel) ==
    [row \in {[kind |-> kind, study_id |-> s] : s \in DOMAIN rel}
        |-> rel[row.study_id]]

KindRank(kind) == IF kind = "a_not_b" THEN 1 ELSE 2

\* ascending study_id; PostgreSQL, the store both the URL handling of
\* get_engine and the statements are written for, sorts NULL after every
\* value
IdLess(s1, s2) == s1 # Null /\ (s2 = Null \/ s1 < s2)

RowLess(r1, r2) ==
    \/ KindRank(r1.kind) < KindRank(r2.kind)
    \/ /\ KindRank(r1.kind) = KindRank(r2.kind)
       /\ IdLess(r1.study_id, r2.study_id)

Copies(x, n) == [i \in 1..n |-> x]

\* ORDER BY 1, 2 of a relation of (kind, study_id) rows
RECURSIVE OrderBy(_)
OrderBy(rel) ==
    IF DOMAIN rel = {} THEN <<>>
    ELSE LET m == CHOOSE r \in DOMAIN rel :
                      \A q \in DOMAIN rel : q = r \/ RowLess(r, q)
         IN  Copies(m, rel[m]) \o OrderBy([q \in DOMAIN rel \ {m} |-> rel[q]])

\* the statement with b_not_a selecting all of b
DissociateQueryOneSided(selA, selB) ==
    LET a == Distinct(selA)
        b == Distinct(selB)
        a_not_b == AntiJoin(a, b)
    IN  OrderBy(Tagged("a_not_b", a_not_b) (+) Tagged("b_not_a", b))

\* the WITH ... SELECT ... UNION ALL ... ORDER BY 1, 2 statement, given the
\* two base selections
DissociateQuery(selA, selB) ==
    LET a == Distinct(selA)
        b == Distinct(selB)
        a_not_b == AntiJoin(a, b)
        b_not_a == AntiJoin(b, a)
    IN  OrderBy(Tagged("a_not_b", a_not_b) (+) Tagged("b_not_a", b_not_a))

TermsQuery(tbl, a, b) ==
    DissociateQuery(
        SelectStudy(tbl, {r \in BagToSet(tbl) : TermCond(a, r)}),
        SelectStudy(tbl, {r \in BagToSet(tbl) : TermCond(b, r)}))

LocationsQuery(tbl, mode, p1, p2) ==
    DissociateQuery(
        SelectStudy(tbl, {r \in BagToSet(tbl) : CoordCond(p1, mode, r)}),
        SelectStudy(tbl, {r \in BagToSet(tbl) : CoordCond(p2, mode, r)}))

\* [r["study_id"] for r in rows if r["kind"] == kind]
IdsOfKind(rows, kind) ==
    LET sel == SelectSeq(rows, LAMBDA r : r.kind = kind)
    IN  [i \in DOMAIN sel |-> sel[i].study_id]

\* the JSON body of both dissociation routes
DissociateBody(a, b, rows) ==
    LET a_nb == IdsOfKind(rows, "a_not_b")
        b_na == IdsOfKind(rows, "b_not_a")
    IN  [a |-> a, b |-> b, a_not_b |-> a_nb, b_not_a |-> b_na,
         counts |-> [a_not_b |-> Len(a_nb), b_not_a |-> Len(b_na)]]

(***************************************************************************)
(* State.                                                                   *)
(***************************************************************************)
VARIABLES
    db_url,             \* os.getenv("DB_URL"): "absent" or the URL's scheme
    _engine,            \* the module global: 0 is None, else an engine
    engines,            \* the engines create_engine has built, each named
                        \* by the thread whose call built it
    annotations_terms,  \* table ns.annotations_terms, a bag of rows
    coordinates,        \* table ns.coordinates, a bag of rows (halves)
    metadata,           \* table ns.metadata, a bag of rows
    ties,               \* how the store's round() breaks a tie
    rejects,            \* the statements the store answers with an error
    connect_fails,      \* whether opening a connection fails
    conns,              \* the connections of the engines' pools, each
                        \* named by the thread whose checkout opened it
    th                  \* the request each worker thread is serving

vars == <<db_url, _engine, engines, annotations_terms, coordinates, metadata,
          ties, rejects, connect_fails, conns, th>>

store == <<db_url, annotations_terms, coordinates, metadata, ties, rejects,
           connect_fails>>

Threads == DOMAIN th

\* the statements a route executes inside its transaction, in order
Program(route) ==
    CASE route = "dissociate_terms" ->
            <<"search_path", "dissociate_terms">>
      [] route = "dissociate_locations" ->
            <<"search_path", "dissociate_locations">>
      [] route = "test_db" ->
            <<"search_path", "version", "count_coordinates", "count_metadata",
              "count_annotations_terms", "sample_coordinates",
              "sample_metadata", "sample_annotations_terms">>
      [] OTHER -> <<>>

\* the statements test_db wraps in a try/except of their own
Guarded ==
    {"sample_coordinates", "sample_metadata", "sample_annotations_terms"}

TableOf(stmt) ==
    CASE stmt \in {"count_coordinates", "sample_coordinates"} -> coordinates
      [] stmt \in {"count_metadata", "sample_metadata"} -> metadata
      [] OTHER -> annotations_terms

PayloadKey(stmt) ==
    CASE stmt = "version" -> "version"
      [] stmt = "count_coordinates" -> "coordinates_count"
      [] stmt = "count_metadata" -> "metadata_count"
      [] stmt = "count_annotations_terms" -> "annotations_terms_count"
      [] stmt = "sample_coordinates" -> "coordinates_sample"
      [] stmt = "sample_metadata" -> "metadata_sample"
      [] stmt = "sample_annotations_terms" -> "annotations_terms_sample"

Min(x, y) == IF x < y THEN x ELSE y

\* the results SELECT ... LIMIT 3 may return: any three rows of the table,
\* or all of them when there are fewer
Samples(tbl) ==
    {s \in SubBag(tbl) : BagCardinality(s) = Min(3, BagCardinality(tbl))}

\* payload[key] = value
Put(payload, key, value) ==
    [k \in DOMAIN payload \cup {key} |->
        IF k = key THEN value ELSE payload[k]]

NoResp == [status |-> 0, kind |-> "none", body |-> "none"]

\* a worker thread that has received a request and not yet run the handler
NewRequest(route, arg1, arg2) ==
    [pc |-> "start", route |-> route, arg1 |-> arg1, arg2 |-> arg2,
     a |-> <<>>, b |-> <<>>, new |-> 0, eng |-> 0, conn |-> 0,
     txn |-> "none", ip |-> 0, log |-> <<>>, rows |-> <<>>,
     payload |-> <<>>, exc |-> "none", resp |-> NoResp]

\* the handler returned: the response and the end of the request, and of
\* the handler's local variables
Return(t, me, status, kind, body) ==
    th' = [th EXCEPT ![t] = [me EXCEPT !.pc = "done", !.new = 0, !.eng = 0,
                                       !.ip = 0, !.rows = <<>>,
                                       !.payload = <<>>, !.exc = "none",
                                       !.resp = [status |-> status,
                                                 kind |-> kind,
                                                 body |-> body]]]

\* an exception left the handler: Flask answers with its generic 500
Unhandled(t, me, exc) == Return(t, me, 500, "unhandled", exc)

(***************************************************************************)
(* health (lines 29-31).                                                    *)
(***************************************************************************)
health(t) ==
    /\ th[t].pc = "start" /\ th[t].route = "health"
    /\ Return(t, th[t], 200, "text", "<p>Server working!</p>")
    /\ UNCHANGED <<_engine, engines, conns, store>>

(***************************************************************************)
(* get_engine (lines 10-24), one step per read or write of the global.      *)
(***************************************************************************)
\* line 12: if _engine is not None.  test_db calls get_engine first thing.
ge_check(t) ==
    /\ \/ th[t].pc = "get_engine"
       \/ th[t].pc = "start" /\ th[t].route = "test_db"
    /\ th' = [th EXCEPT ![t].pc = IF _engine # 0 THEN "ge_return"
                                  ELSE "ge_create"]
    /\ UNCHANGED <<_engine, engines, conns, store>>

\* postgres:// is rewritten to postgresql:// (lines 18-19)
NormalizeUrl(url) == IF url = "postgres" THEN "postgresql" ELSE url

\* lines 14-23: the environment variable, its check, its normalisation and
\* the call of create_engine
ge_create(t) ==
    /\ th[t].pc = "ge_create"
    /\ IF db_url = "absent"
       THEN /\ Unhandled(t, th[t], "RuntimeError")
            /\ UNCHANGED engines
       ELSE /\ engines' = Put(engines, t, [url |-> NormalizeUrl(db_url)])
            /\ th' = [th EXCEPT ![t].pc = "ge_assign", ![t].new = t]
    /\ UNCHANGED <<_engine, conns, store>>

\* line 20: the assignment to the global
ge_assign(t) ==
    /\ th[t].pc = "ge_assign"
    /\ _engine' = th[t].new
    /\ th' = [th EXCEPT ![t].pc = "ge_return"]
    /\ UNCHANGED <<engines, conns, store>>

\* lines 13 and 24: return _engine
ge_return(t) ==
    /\ th[t].pc = "ge_return"
    /\ th' = [th EXCEPT ![t].eng = _engine,
                        ![t].pc = IF th[t].route = "test_db" THEN "td_payload"
                                  ELSE "begin"]
    /\ UNCHANGED <<_engine, engines, conns, store>>

(***************************************************************************)
(* The transaction of a request: with eng.begin() as conn (lines 85-87,     *)
(* 146-151, 173-205).                                                       *)
(***************************************************************************)
\* an exception reached the handler's outermost frame: test_db catches it
\* (lines 210-212), the other routes let it escape
Raise(t, me, exc) ==
    IF me.route = "test_db"
    THEN Return(t, me, 500, "json", Put(me.payload, "error", exc))
    ELSE Unhandled(t, me, exc)

\* the exception raised in or on leaving the with block travels up to the
\* handler's outermost frame
propagate(t) ==
    /\ th[t].pc = "raise"
    /\ Raise(t, th[t], th[t].exc)
    /\ UNCHANGED <<_engine, engines, conns, store>>

\* the connection goes back to its pool
Release(c) == [c EXCEPT !.holder = 0, !.state = "idle"]

\* ROLLBACK, and the connection goes back to its pool
Rollback(c) == Release(c)

\* the with block is left by an exception: the transaction is rolled back
\* and the connection returned before the exception travels on
rollback(t) ==
    /\ th[t].pc = "rollback"
    /\ conns' = [conns EXCEPT ![th[t].conn] = Rollback(conns[th[t].conn])]
    /\ th' = [th EXCEPT ![t].pc = "raise", ![t].conn = 0,
                        ![t].txn = "rolledback"]
    /\ UNCHANGED <<_engine, engines, store>>

\* eng.begin(): a connection checked out of the engine's pool, a new one
\* when the pool holds none, and a transaction begun on it
begin(t) ==
    /\ th[t].pc = "begin"
    /\ IF connect_fails
       THEN /\ th' = [th EXCEPT ![t].pc = "raise",
                                    ![t].exc = "OperationalError"]
            /\ UNCHANGED conns
       ELSE LET free == {i \in DOMAIN conns :
                            conns[i].engine = th[t].eng /\ conns[i].holder = 0}
                c == IF free = {} THEN t
                     ELSE CHOOSE i \in free : \A j \in free : i <= j
                held == [engine |-> th[t].eng, holder |-> t, state |-> "open"]
            IN  /\ conns' = Put(conns, c, held)
                /\ th' = [th EXCEPT ![t].pc = "exec", ![t].conn = c,
                                    ![t].txn = "open", ![t].ip = 1]
    /\ UNCHANGED <<_engine, engines, store>>

\* what the store answers to a statement it accepts
Answers(t, stmt) ==
    CASE stmt = "dissociate_terms" ->
            {TermsQuery(annotations_terms, th[t].a, th[t].b)}
      [] stmt = "dissociate_locations" ->
            {LocationsQuery(coordinates, ties, th[t].a, th[t].b)}
      [] stmt \in {"count_coordinates", "count_metadata",
                   "count_annotations_terms"} ->
            {BagCardinality(TableOf(stmt))}
      [] stmt \in Guarded -> Samples(TableOf(stmt))
      [] stmt = "version" -> {"PostgreSQL"}
      [] OTHER -> {"SET"}

\* a statement fails when the store rejects it, and also when an earlier
\* statement of the same transaction has failed: PostgreSQL then answers
\* every statement with "current transaction is aborted"
Fails(c, stmt) == c.state = "aborted" \/ stmt \in rejects

\* conn.execute of the next statement of the handler
exec(t) ==
    /\ th[t].pc = "exec"
    /\ LET r == th[t].route
           stmt == Program(r)[th[t].ip]
           c == conns[th[t].conn]
           last == th[t].ip = Len(Program(r))
           me == [th[t] EXCEPT !.log = Append(th[t].log, stmt),
                               !.ip = th[t].ip + 1,
                               !.pc = IF last THEN "commit" ELSE "exec"]
       IN  IF Fails(c, stmt)
           THEN IF r = "test_db" /\ stmt \in Guarded
                THEN \* except Exception: payload[...] = []
                     /\ conns' = [conns EXCEPT ![th[t].conn].state = "aborted"]
                     /\ th' = [th EXCEPT ![t] =
                                 [me EXCEPT !.payload =
                                     Put(me.payload, PayloadKey(stmt), <<>>)]]
                ELSE \* the statement raises inside the with block, the
                     \* connection still held and its transaction aborted
                     /\ conns' = [conns EXCEPT ![th[t].conn].state = "aborted"]
                     /\ th' = [th EXCEPT ![t] =
                                 [me EXCEPT !.pc = "rollback",
                                            !.exc = "DBAPIError"]]
           ELSE /\ UNCHANGED conns
                /\ \E ans \in Answers(t, stmt) :
                      th' = [th EXCEPT ![t] =
                               [me EXCEPT
                                  !.rows = IF r # "test_db" /\ last THEN ans
                                           ELSE me.rows,
                                  !.payload =
                                      IF r = "test_db" /\ stmt # "search_path"
                                      THEN Put(me.payload, PayloadKey(stmt),
                                               ans)
                                      ELSE me.payload]]
    /\ UNCHANGED <<_engine, engines, store>>

\* the end of the with block: commit.  On a transaction a failed statement
\* has aborted, COMMIT ends it as a rollback and raises nothing.  When
\* COMMIT itself raises, the block rolls back and re-raises.
commit(t) ==
    /\ th[t].pc = "commit"
    /\ LET c == conns[th[t].conn]
       IN  IF "commit" \in rejects
           THEN \* COMMIT raises: the connection is still held
                /\ conns' = [conns EXCEPT ![th[t].conn].state = "aborted"]
                /\ th' = [th EXCEPT ![t].pc = "rollback",
                                    ![t].exc = "DBAPIError"]
           ELSE /\ conns' = [conns EXCEPT ![th[t].conn] = Release(c)]
                /\ th' = [th EXCEPT ![t].pc = "respond", ![t].conn = 0,
                                    ![t].txn = IF c.state = "aborted"
                                               THEN "rolledback"
                                               ELSE "committed"]
    /\ UNCHANGED <<_engine, engines, store>>

(***************************************************************************)
(* dissociate_terms (lines 48-98).                                          *)
(***************************************************************************)
\* lines 55-56: the two keys
dissociate_terms_keys(t) ==
    /\ th[t].pc = "start" /\ th[t].route = "dissociate_terms"
    /\ th' = [th EXCEPT ![t].a = Key(th[t].arg1), ![t].b = Key(th[t].arg2),
                        ![t].pc = "get_engine"]
    /\ UNCHANGED <<_engine, engines, conns, store>>

(***************************************************************************)
(* dissociate_locations (lines 100-162).                                    *)
(***************************************************************************)
\* lines 113-114: coord1 is parsed first, coord2 only when coord1 parsed
dissociate_locations_parse(t) ==
    /\ th[t].pc = "start" /\ th[t].route = "dissociate_locations"
    /\ LET p1 == parse_coords(th[t].arg1)
           p2 == parse_coords(th[t].arg2)
       IN  IF p1 = Abort400 \/ p2 = Abort400
           THEN Return(t, th[t], 400, "abort",
                       "Coordinates must be 'x_y_z' with integers.")
           ELSE th' = [th EXCEPT ![t].a = p1, ![t].b = p2,
                                 ![t].pc = "get_engine"]
    /\ UNCHANGED <<_engine, engines, conns, store>>

\* lines 89-98 and 153-162: the two lists and the JSON body
dissociate_respond(t) ==
    /\ th[t].pc = "respond"
    /\ th[t].route \in {"dissociate_terms", "dissociate_locations"}
    /\ Return(t, th[t], 200, "json", DissociateBody(th[t].a, th[t].b, th[t].rows))
    /\ UNCHANGED <<_engine, engines, conns, store>>

(***************************************************************************)
(* test_db (lines 166-212).                                                 *)
(***************************************************************************)
\* line 170: payload = {"ok": False, "dialect": eng.dialect.name}
td_payload(t) ==
    /\ th[t].pc = "td_payload"
    /\ th' = [th EXCEPT ![t].payload =
                            [ok |-> FALSE,
                             dialect |-> engines[th[t].eng].url],
                        ![t].pc = "begin"]
    /\ UNCHANGED <<_engine, engines, conns, store>>

\* lines 207-208: payload["ok"] = True; return jsonify(payload), 200
td_respond(t) ==
    /\ th[t].pc = "respond" /\ th[t].route = "test_db"
    /\ Return(t, th[t], 200, "json", Put(th[t].payload, "ok", TRUE))
    /\ UNCHANGED <<_engine, engines, conns, store>>

(***************************************************************************)
(* Inputs: requests, table contents and store behaviours.                   *)
(***************************************************************************)
\* all strings of at most n characters of an alphabet
Strings(alphabet, n) == UNION {[1..k -> alphabet] : k \in 0..n}

\* "A", "a", the space, the tab (whitespace that is not the space), "_",
\* the capital sigma, U+03D2 (a capital without a lower-case form) and
\* U+0130 (a capital whose lower-case form is two characters)
TermAlphabet == {65, 97, Space, Tab, Underscore, CapitalSigma, 978, 304}

\* "1", "-", "_", "a"
CoordAlphabet == {49, Minus, Underscore, 97}

\* "Amygdala"
Amygdala == <<65, 109, 121, 103, 100, 97, 108, 97>>

\* "Hippocampus"
Hippocampus == <<72, 105, 112, 112, 111, 99, 97, 109, 112, 117, 115>>

\* all bags of at most n rows drawn from a set of rows: each of n places
\* holds a row or nothing
NoRow == [study_id |-> 0]

BagsOf(rows, n) ==
    {[r \in {q[i] : i \in 1..n} \ {NoRow} |->
         Cardinality({i \in 1..n : q[i] = r})] :
     q \in [1..n -> rows \cup {NoRow}]}

\* the study ids of the tables; every row of the tables below carries one
\* (none has a NULL study_id)
StudyIds == 1..MaxStudy

TermRows ==
    [study_id : StudyIds, term : {Key(Amygdala), Key(Hippocampus)},
     weight : {-1, 0, 1}]

\* geometry in halves: x is 1.0, 1.5, 2.5 or -1.5
CoordRows == [study_id : StudyIds, x : {2, 3, 5, -3}, y : {0}, z : {0}]

SampleTerms ==
    SetToBag({[study_id |-> 1, term |-> Key(Amygdala), weight |-> 1],
              [study_id |-> 2, term |-> Key(Hippocampus), weight |-> 1]})

SampleCoords ==
    SetToBag({[study_id |-> 1, x |-> 2, y |-> 0, z |-> 0],
              [study_id |-> 2, x |-> 4, y |-> 0, z |-> 0]})

SampleMeta == SetToBag({[study_id |-> 1], [study_id |-> 2]})

\* "1_0_0"
C100 == <<49, 95, 48, 95, 48>>

\* "2_0_0"
C200 == <<50, 95, 48, 95, 48>>

\* "-2_0_0"
CNeg == <<45, 50, 95, 48, 95, 48>>

\* "1_2"
CShort == <<49, 95, 50>>

\* coordinate strings with a token that int() reads after dropping a sign
\* or whitespace, or in the digits of another script, and with a token of
\* whitespace only: "\r1_0_0", "1_0\xa0_0", "+1_0_0", "2_0_0\f",
\* "\u06f1_0_0", "1\x1c_0_0", " _0_0", "1 1_0_0"; and the string whose first
\* token is one digit "0" longer than int() converts
PaddedCoords ==
    {<<13, 49, 95, 48, 95, 48>>,
     <<49, 95, 48, 160, 95, 48>>,
     <<43, 49, 95, 48, 95, 48>>,
     <<50, 95, 48, 95, 48, 12>>,
     <<1777, 95, 48, 95, 48>>,
     <<49, 28, 95, 48, 95, 48>>,
     <<32, 95, 48, 95, 48>>,
     <<49, 32, 49, 95, 48, 95, 48>>,
     [i \in 1..(MaxStrDigits + 1) |-> 48] \o <<95, 48, 95, 48>>}

\* the state of the process after import: no engine, no transaction
Fresh ==
    /\ _engine = 0
    /\ engines = <<>>
    /\ conns = <<>>

HealthyStore ==
    /\ db_url \in {"postgresql", "postgres"}
    /\ rejects = {}
    /\ connect_fails = FALSE

SampleTables ==
    /\ annotations_terms = SampleTerms
    /\ coordinates = SampleCoords
    /\ metadata = SampleMeta
    /\ ties = "even"

\* the requests the worker threads serve concurrently
ConcRequests ==
    <<NewRequest("health", <<>>, <<>>),
      NewRequest("dissociate_terms", Amygdala, Hippocampus),
      NewRequest("dissociate_locations", C100, C200),
      NewRequest("dissociate_locations", C100, CShort),
      NewRequest("test_db", <<>>, <<>>)>>

\* the behaviours of the environment the concurrent requests run against
Environments ==
    {[db_url |-> "postgres", rejects |-> {}, connect_fails |-> FALSE],
     [db_url |-> "absent", rejects |-> {}, connect_fails |-> FALSE],
     [db_url |-> "postgresql", rejects |-> {"dissociate_terms"},
      connect_fails |-> FALSE],
     [db_url |-> "postgresql", rejects |-> {"dissociate_locations"},
      connect_fails |-> FALSE],
     [db_url |-> "postgresql", rejects |-> {"search_path"},
      connect_fails |-> FALSE],
     [db_url |-> "postgresql", rejects |-> {"commit"},
      connect_fails |-> FALSE],
     [db_url |-> "postgresql", rejects |-> {}, connect_fails |-> TRUE]}

\* up to NumThreads concurrent requests; the threads are interchangeable, so
\* the requests are given to them in the order of ConcRequests
Init ==
    /\ Fresh
    /\ SampleTables
    /\ \E e \in Environments :
          /\ db_url = e.db_url
          /\ rejects = e.rejects
          /\ connect_fails = e.connect_fails
    /\ \E n \in 1..NumThreads :
          \E f \in [1..n -> DOMAIN ConcRequests] :
             /\ \A i \in 1..(n - 1) : f[i] <= f[i + 1]
             /\ th = [i \in 1..n |-> ConcRequests[f[i]]]

\* one request to a dissociation route, over every term, every coordinate
\* string and every table content within the bounds
InitDissociate ==
    /\ Fresh
    /\ HealthyStore
    /\ metadata = SampleMeta
    /\ \/ \* the terms
          /\ annotations_terms = SampleTerms /\ coordinates = SampleCoords
          /\ ties = "even"
          /\ \E s \in Strings(TermAlphabet, MaxTermLen) :
                th \in {<<NewRequest("dissociate_terms", s, Hippocampus)>>,
                        <<NewRequest("dissociate_terms", Amygdala, s)>>}
       \/ \* the annotation rows
          /\ annotations_terms \in BagsOf(TermRows, MaxRows)
          /\ coordinates = SampleCoords
          /\ ties = "even"
          /\ th \in {<<NewRequest("dissociate_terms", Amygdala, Hippocampus)>>,
                     <<NewRequest("dissociate_terms", Hippocampus, Amygdala)>>,
                     <<NewRequest("dissociate_terms", Amygdala, Amygdala)>>}
       \/ \* the coordinate strings
          /\ annotations_terms = SampleTerms /\ coordinates = SampleCoords
          /\ ties = "even"
          /\ \E s \in Strings(CoordAlphabet, MaxCoordLen) \cup PaddedCoords :
                \E c \in {C100, CShort} :
                   th \in {<<NewRequest("dissociate_locations", s, c)>>,
                           <<NewRequest("dissociate_locations", c, s)>>}
       \/ \* the coordinate rows
          /\ annotations_terms = SampleTerms
          /\ coordinates \in BagsOf(CoordRows, MaxRows)
          /\ ties \in {"even", "away"}
          /\ th \in {<<NewRequest("dissociate_locations", C100, C200)>>,
                     <<NewRequest("dissociate_locations", C200, CNeg)>>,
                     <<NewRequest("dissociate_locations", C200, C200)>>}

\* one request to test_db, over every behaviour of the store
InitDiag ==
    /\ Fresh
    /\ db_url \in {"absent", "postgresql", "postgres"}
    /\ rejects \in SUBSET (Range(Program("test_db")) \cup {"commit"})
    /\ connect_fails \in BOOLEAN
    /\ annotations_terms \in {EmptyBag, SampleTerms}
    /\ coordinates = SampleCoords
    /\ metadata = SampleMeta
    /\ ties = "even"
    /\ th = <<NewRequest("test_db", <<>>, <<>>)>>

(***************************************************************************)
(* Next-state relations and specifications.                                 *)
(***************************************************************************)
Next ==
    \/ \E t \in Threads : health(t)
    \/ \E t \in Threads : ge_check(t)
    \/ \E t \in Threads : ge_create(t)
    \/ \E t \in Threads : ge_assign(t)
    \/ \E t \in Threads : ge_return(t)
    \/ \E t \in Threads : begin(t)
    \/ \E t \in Threads : exec(t)
    \/ \E t \in Threads : commit(t)
    \/ \E t \in Threads : rollback(t)
    \/ \E t \in Threads : propagate(t)
    \/ \E t \in Threads : dissociate_terms_keys(t)
    \/ \E t \in Threads : dissociate_locations_parse(t)
    \/ \E t \in Threads : dissociate_respond(t)
    \/ \E t \in Threads : td_payload(t)
    \/ \E t \in Threads : td_respond(t)

Spec == Init /\ [][Next]_vars

NextDissociate ==
    \/ \E t \in Threads : ge_check(t)
    \/ \E t \in Threads : ge_create(t)
    \/ \E t \in Threads : ge_assign(t)
    \/ \E t \in Threads : ge_return(t)
    \/ \E t \in Threads : begin(t)
    \/ \E t \in Threads : exec(t)
    \/ \E t \in Threads : commit(t)
    \/ \E t \in Threads : dissociate_terms_keys(t)
    \/ \E t \in Threads : dissociate_locations_parse(t)
    \/ \E t \in Threads : dissociate_respond(t)

SpecDissociate == InitDissociate /\ [][NextDissociate]_vars

NextDiag ==
    \/ \E t \in Threads : ge_check(t)
    \/ \E t \in Threads : ge_create(t)
    \/ \E t \in Threads : ge_assign(t)
    \/ \E t \in Threads : ge_return(t)
    \/ \E t \in Threads : begin(t)
    \/ \E t \in Threads : exec(t)
    \/ \E t \in Threads : commit(t)
    \/ \E t \in Threads : rollback(t)
    \/ \E t \in Threads : propagate(t)
    \/ \E t \in Threads : td_payload(t)
    \/ \E t \in Threads : td_respond(t)

SpecDiag == InitDiag /\ [][NextDiag]_vars

(***************************************************************************)
(* Properties of the dissociation routes, under SpecDissociate.             *)
(***************************************************************************)
Finished(t, route) == th[t].pc = "done" /\ th[t].route = route

Answered(t) ==
    /\ th[t].pc = "done"
    /\ th[t].route \in {"dissociate_terms", "dissociate_locations"}
    /\ th[t].resp.status = 200

\* the studies having a row with this term and a positive weight
StudiesWithTerm(key) ==
    {s \in StudyIds :
        \E r \in BagToSet(annotations_terms) :
           r.study_id = s /\ r.term = key /\ r.weight > 0}

\* the studies having a row whose rounded coordinates are this triple
StudiesAt(p) ==
    {s \in StudyIds :
        \E r \in BagToSet(coordinates) :
           /\ r.study_id = s
           /\ <<Round(r.x, ties), Round(r.y, ties), Round(r.z, ties)>> = p}

\* the sets A and B of an answered request, from the keys of its response
SetA(t) ==
    IF th[t].route = "dissociate_terms"
    THEN StudiesWithTerm(th[t].resp.body.a)
    ELSE StudiesAt(th[t].resp.body.a)

SetB(t) ==
    IF th[t].route = "dissociate_terms"
    THEN StudiesWithTerm(th[t].resp.body.b)
    ELSE StudiesAt(th[t].resp.body.b)

\* C1: in every response of dissociate_terms and dissociate_locations,
\* a_not_b is A \ B and b_not_a is B \ A, where A and B are the studies
\* having the first and the second key (rows of weight <= 0 not counting);
\* the two lists are disjoint and with A \cap B they partition A \cup B, so
\* both are empty with counts 0 when A = B.
C1_SetDifference ==
    \A t \in Threads :
       Answered(t) =>
          LET body == th[t].resp.body
              anb == Range(body.a_not_b)
              bna == Range(body.b_not_a)
              A == SetA(t)
              B == SetB(t)
          IN  /\ anb = A \ B
              /\ bna = B \ A
              /\ anb \cap bna = {}
              /\ anb \cap (A \cap B) = {} /\ bna \cap (A \cap B) = {}
              /\ anb \cup (A \cap B) \cup bna = A \cup B
              /\ A = B => /\ body.a_not_b = <<>> /\ body.b_not_a = <<>>
                          /\ body.counts.a_not_b = 0
                          /\ body.counts.b_not_a = 0

\* a response of dissociate_terms with both lists non-empty, over a table
\* where a study of a_not_b has a row of the second term with weight <= 0
C1_Witness ==
    \E t \in Threads :
       /\ Answered(t) /\ th[t].route = "dissociate_terms"
       /\ th[t].resp.body.b_not_a # <<>>
       /\ \E r \in BagToSet(annotations_terms) :
             /\ r.term = th[t].resp.body.b /\ r.weight <= 0
             /\ r.study_id \in Range(th[t].resp.body.a_not_b)

Malformed(s) ==
    \/ Cardinality({i \in DOMAIN s : s[i] = Underscore}) # 2
    \/ \E i \in DOMAIN Split(s, Underscore) :
          ~ IsInt(Split(s, Underscore)[i])

\* C2: a dissociate_locations request one of whose coordinate strings is
\* not three integers joined by "_" ends with a 400 carrying a description,
\* and ends at once: it obtains no engine, opens no transaction and
\* executes no statement, whichever of the two strings is the malformed one.
C2_MalformedIs400 ==
    \A t \in Threads :
       (/\ th[t].route = "dissociate_locations"
        /\ Malformed(th[t].arg1) \/ Malformed(th[t].arg2)) =>
          /\ th[t].pc \in {"start", "done"}
          /\ th[t].eng = 0 /\ th[t].new = 0 /\ th[t].conn = 0
          /\ th[t].txn = "none" /\ th[t].log = <<>>
          /\ \A c \in DOMAIN conns : c # t /\ conns[c].holder # t
          /\ t \notin DOMAIN engines
          /\ th[t].pc = "done" =>
                /\ th[t].resp.status = 400
                /\ th[t].resp.kind = "abort"
                /\ th[t].resp.body # ""

\* a finished request whose first string is well formed and whose second
\* is not
C2_Witness ==
    \E t \in Threads :
       /\ Finished(t, "dissociate_locations")
       /\ ~ Malformed(th[t].arg1) /\ Malformed(th[t].arg2)
       /\ th[t].resp.status = 400

\* what dissociate_terms answers for two raw terms on the current table
TermsResponse(term_a, term_b) ==
    DissociateBody(Key(term_a), Key(term_b),
                   TermsQuery(annotations_terms, Key(term_a), Key(term_b)))

\* C4: the response of dissociate_terms for (term_a, term_b) is the
\* response for (term_b, term_a) with a and b, a_not_b and b_not_a (same
\* IDs, same order) and the two counts swapped.
C4_SwapSymmetry ==
    \A t \in Threads :
       (Answered(t) /\ th[t].route = "dissociate_terms") =>
          LET body == th[t].resp.body
              swapped == TermsResponse(th[t].arg2, th[t].arg1)
          IN  /\ body.a = swapped.b /\ body.b = swapped.a
              /\ body.a_not_b = swapped.b_not_a
              /\ body.b_not_a = swapped.a_not_b
              /\ body.counts.a_not_b = swapped.counts.b_not_a
              /\ body.counts.b_not_a = swapped.counts.a_not_b

\* a response for two different terms whose sets overlap and whose two
\* lists differ
C4_Witness ==
    \E t \in Threads :
       /\ Answered(t) /\ th[t].route = "dissociate_terms"
       /\ th[t].resp.body.a # th[t].resp.body.b
       /\ SetA(t) \cap SetB(t) # {}
       /\ th[t].resp.body.a_not_b # th[t].resp.body.b_not_a

NormOf(key) == SubSeq(key, Len(Prefix) + 1, Len(key))

\* the titlecase letters, in runs <<first, last>>
TitlecaseTable ==
    {<<453, 453>>, <<456, 456>>, <<459, 459>>, <<498, 498>>, <<8072, 8079>>,
     <<8088, 8095>>, <<8104, 8111>>, <<8124, 8124>>, <<8140, 8140>>,
     <<8188, 8188>>}

\* the uppercase letters str.lower() leaves as they are, in runs
\* <<first, last>>
UpperOnlyTable ==
    {<<978, 980>>, <<8450, 8450>>, <<8455, 8455>>, <<8459, 8461>>,
     <<8464, 8466>>, <<8469, 8469>>, <<8473, 8477>>, <<8484, 8484>>,
     <<8488, 8488>>, <<8492, 8493>>, <<8496, 8497>>, <<8499, 8499>>,
     <<8510, 8511>>, <<8517, 8517>>, <<119808, 119833>>, <<119860, 119885>>,
     <<119912, 119937>>, <<119964, 119964>>, <<119966, 119967>>,
     <<119970, 119970>>, <<119973, 119974>>, <<119977, 119980>>,
     <<119982, 119989>>, <<120016, 120041>>, <<120068, 120069>>,
     <<120071, 120074>>, <<120077, 120084>>, <<120086, 120092>>,
     <<120120, 120121>>, <<120123, 120126>>, <<120128, 120132>>,
     <<120134, 120134>>, <<120138, 120144>>, <<120172, 120197>>,
     <<120224, 120249>>, <<120276, 120301>>, <<120328, 120353>>,
     <<120380, 120405>>, <<120432, 120457>>, <<120488, 120512>>,
     <<120546, 120570>>, <<120604, 120628>>, <<120662, 120686>>,
     <<120720, 120744>>, <<120778, 120778>>, <<127280, 127305>>,
     <<127312, 127337>>, <<127344, 127369>>}

\* the letters str.lower() changes
Lowered == DOMAIN LowerOf \cup {304}

\* the uppercase letters
Uppercase ==
    (Lowered \ UNION {r[1]..r[2] : r \in TitlecaseTable})
    \cup UNION {r[1]..r[2] : r \in UpperOnlyTable}

\* the key is the prefix followed by the trimmed term, in lower case and
\* with "_" for each character of the set blanks; the normalised term is
\* left as it is by a second normalisation and holds no character of
\* blanks or of capitals
KeyIsCanonical(term, key, blanks, capitals) ==
    LET low == Lower(Strip(term))
        norm == NormOf(key)
    IN  /\ SubSeq(key, 1, Len(Prefix)) = Prefix
        /\ norm = [i \in DOMAIN low |->
                      IF low[i] \in blanks THEN Underscore ELSE low[i]]
        /\ Key(norm) = key
        /\ \A i \in DOMAIN norm :
              /\ norm[i] \notin capitals
              /\ norm[i] \notin blanks
        /\ term = Amygdala =>
              key = Prefix \o <<97, 109, 121, 103, 100, 97, 108, 97>>

KeysComputed(t) ==
    th[t].route = "dissociate_terms" /\ th[t].pc # "start"

\* C8 as stated: the key is the prefix followed by norm(t), where norm
\* lowercases, trims and replaces every internal whitespace character with
\* an underscore; norm is idempotent and its result has no uppercase letter
\* and no whitespace.
C8_EveryWhitespaceReplaced ==
    \A t \in Threads :
       KeysComputed(t) =>
          /\ KeyIsCanonical(th[t].arg1, th[t].a, Whitespace, Uppercase)
          /\ KeyIsCanonical(th[t].arg2, th[t].b, Whitespace, Uppercase)

\* C8 amended: the key is the prefix followed by norm(t), where norm
\* lowercases, trims and replaces every internal space (U+0020) with an
\* underscore, other whitespace such as a tab staying as it is; norm is
\* idempotent and its result has no space and no letter that has a
\* lower-case form, a capital without one staying as it is.
C8_SpacesReplaced ==
    \A t \in Threads :
       KeysComputed(t) =>
          /\ KeyIsCanonical(th[t].arg1, th[t].a, {Space}, Lowered)
          /\ KeyIsCanonical(th[t].arg2, th[t].b, {Space}, Lowered)

\* the keys of a term with an uppercase letter, an internal space and
\* whitespace to trim
C8_Witness ==
    \E t \in Threads :
       /\ KeysComputed(t)
       /\ \E i \in DOMAIN th[t].arg1 : th[t].arg1[i] \in Uppercase
       /\ \E i \in DOMAIN Strip(th[t].arg1) : Strip(th[t].arg1)[i] = Space
       /\ Strip(th[t].arg1) # th[t].arg1

StrictlyAscending(q) == \A i \in 1..(Len(q) - 1) : q[i] < q[i + 1]

\* C9: in every response of both resolvers, whatever rows the tables hold
\* (several rows for one study and key included), a_not_b and b_not_a are
\* in strictly ascending study_id order, so hold no ID twice, and the
\* counts are the numbers of distinct studies in A \ B and in B \ A.
C9_AscendingDistinct ==
    \A t \in Threads :
       Answered(t) =>
          LET body == th[t].resp.body
          IN  /\ StrictlyAscending(body.a_not_b)
              /\ StrictlyAscending(body.b_not_a)
              /\ body.counts.a_not_b = Cardinality(SetA(t) \ SetB(t))
              /\ body.counts.b_not_a = Cardinality(SetB(t) \ SetA(t))

\* a response listing two studies, one of which has two equal rows for the
\* first key
C9_Witness ==
    \E t \in Threads :
       /\ Answered(t) /\ th[t].route = "dissociate_terms"
       /\ Len(th[t].resp.body.a_not_b) >= 2
       /\ \E r \in BagToSet(annotations_terms) :
             /\ CopiesIn(r, annotations_terms) >= 2
             /\ r.term = th[t].resp.body.a /\ r.weight > 0
             /\ r.study_id \in Range(th[t].resp.body.a_not_b)

(***************************************************************************)
(* Properties of the process under concurrent requests, under Spec.         *)
(***************************************************************************)
\* C3: under any interleaving of first requests, one engine at most is ever
\* created (the handle is written at most once) and every caller of
\* get_engine receives that same engine.
C3_SingleInitialization ==
    /\ Cardinality(DOMAIN engines) <= 1
    /\ \A t1, t2 \in Threads :
          (th[t1].eng # 0 /\ th[t2].eng # 0) => th[t1].eng = th[t2].eng

\* the RuntimeError of get_engine escaped the handler of request t
ConfigFailed(t) ==
    /\ th[t].pc = "done"
    /\ th[t].resp.kind = "unhandled"
    /\ th[t].resp.body = "RuntimeError"

\* C7: with the connection string absent the failure is fatal to
\* the process: once get_engine has failed for a request, the process
\* answers no other request normally.
C7_ProcessFatal ==
    [][(db_url = "absent" /\ \E t \in Threads : ConfigFailed(t)) =>
          \A t \in Threads :
             (th[t].pc # "done" /\ th'[t].pc = "done") =>
                th'[t].resp.kind = "unhandled"]_vars

IsPrefix(p, q) == Len(p) <= Len(q) /\ SubSeq(q, 1, Len(p)) = p

Dissociation(t) ==
    th[t].route \in {"dissociate_terms", "dissociate_locations"}

\* every connection is of the pool of one and the same engine
SharedPool ==
    \A c1, c2 \in DOMAIN conns : conns[c1].engine = conns[c2].engine

\* each request runs its statements on a connection of its own, each
\* statement once at most and in order, and has committed, or rolled back
\* after the failure of a statement or of the commit, and returned the
\* connection before its response is produced
OwnTransactionOnce ==
    /\ \A c \in DOMAIN conns :
          IF conns[c].holder = 0 THEN conns[c].state = "idle"
          ELSE /\ th[conns[c].holder].conn = c
               /\ th[conns[c].holder].pc \in {"exec", "commit", "rollback"}
    /\ \A t1, t2 \in Threads :
          (t1 # t2 /\ th[t1].conn # 0) => th[t1].conn # th[t2].conn
    /\ \A t \in Threads :
          /\ th[t].conn # 0 =>
                /\ th[t].conn \in DOMAIN conns
                /\ conns[th[t].conn].holder = t
                /\ conns[th[t].conn].engine = th[t].eng
                /\ th[t].txn = "open"
          /\ th[t].pc \in {"respond", "raise", "done"} =>
                th[t].conn = 0 /\ th[t].txn # "open"
          /\ IsPrefix(th[t].log, Program(th[t].route))
          /\ Answered(t) =>
                th[t].log = Program(th[t].route) /\ th[t].txn = "committed"
          /\ (Dissociation(t) /\ th[t].pc = "done"
                /\ th[t].txn = "rolledback") =>
                /\ th[t].resp.status = 500
                /\ th[t].log # <<>>
                /\ \/ th[t].log[Len(th[t].log)] \in rejects
                   \/ /\ th[t].log = Program(th[t].route)
                      /\ "commit" \in rejects

\* C10: each dissociation request opens a transaction of its own from the
\* shared pool, executes its query once inside it and has committed or
\* rolled back and returned the connection before its response is produced;
\* no statement is executed a second time, no connection is held by two
\* requests, and none stays held once its request has ended.
C10_OwnTransactionOnce == SharedPool /\ OwnTransactionOnce

(***************************************************************************)
(* Properties of test_db, under SpecDiag.                                   *)
(***************************************************************************)
\* the failures of the connection or of the transaction as a whole
TopLevelFailure ==
    \/ db_url = "absent"
    \/ connect_fails
    \/ rejects \cap ((Range(Program("test_db")) \ Guarded) \cup {"commit"})
          # {}

\* C5: when sample queries fail and nothing else does, the response is 200
\* with ok true and no error field, the sample of each failing query is the
\* empty list and the sample of each other table is the rows its own query
\* returns.
C5_IndependentSamples ==
    \A t \in Threads :
       (/\ Finished(t, "test_db")
        /\ ~ TopLevelFailure
        /\ rejects \cap Guarded # {}) =>
          /\ th[t].resp.status = 200
          /\ th[t].resp.kind = "json"
          /\ th[t].resp.body["ok"] = TRUE
          /\ "error" \notin DOMAIN th[t].resp.body
          /\ \A stmt \in Guarded :
                IF stmt \in rejects
                THEN th[t].resp.body[PayloadKey(stmt)] = <<>>
                ELSE th[t].resp.body[PayloadKey(stmt)]
                        \in Samples(TableOf(stmt))

\* C6: every test_db request ends with 200, ok true, three counts and no
\* error field, or with 500, ok false and an error string; ok is false
\* exactly when the connection or the transaction as a whole failed, and
\* no failure escapes the handler.
C6_TwoOutcomes ==
    \A t \in Threads :
       Finished(t, "test_db") =>
          /\ th[t].resp.kind = "json"
          /\ \/ /\ th[t].resp.status = 200
                /\ th[t].resp.body["ok"] = TRUE
                /\ \A k \in {"coordinates_count", "metadata_count",
                             "annotations_terms_count"} :
                      /\ k \in DOMAIN th[t].resp.body
                      /\ th[t].resp.body[k] \in Nat
                /\ "error" \notin DOMAIN th[t].resp.body
             \/ /\ th[t].resp.status = 500
                /\ th[t].resp.body["ok"] = FALSE
                /\ "error" \in DOMAIN th[t].resp.body
          /\ th[t].resp.body["ok"] = FALSE <=> TopLevelFailure

====
